---- MODULE Spec2Model ----
(***************************************************************************)
(* Cuckoo Cycle graph solving and verification (src/src/graph.rs).         *)
(*                                                                         *)
(* A Graph is a position-indexed sequence of edges (U(u), V(v)).  solve    *)
(* builds an adjacency matrix from it, trims it, and mines it with a       *)
(* depth first search; verify checks a list of edge positions.             *)
(*                                                                         *)
(* HashMap / HashSet iteration order is unspecified in Rust: wherever the  *)
(* code iterates a map or a set, the model takes every order.              *)
(* Rust positions are 0-based; edges[i] of the code is edges[i + 1] here.  *)
(***************************************************************************)
EXTENDS Integers, Sequences, FiniteSets, TLC

(***************************************************************************)
(* Bounds of the model.                                                    *)
(***************************************************************************)
\* graphs handed to edge_trim alone have at most TrimEdges edges, and the
\* calls modelled have count in 0 .. MaxRounds
TrimEdges == 5
MaxRounds == 5
\* graphs handed to solve have at most SolveEdges edges, and the cycle
\* lengths asked range over 0 .. MaxLen
SolveEdges == 5
MaxLen == 8
\* graphs handed to verify have at most VerifyEdges edges, and candidate
\* lists at most MaxCand entries
VerifyEdges == 3
MaxCand == 3

\* the round count solve passes to edge_trim
SolveRounds == 100

(***************************************************************************)
(* Node, Edge, Graph                                                       *)
(***************************************************************************)
U(i) == <<"U", i>>
V(i) == <<"V", i>>

\* type Edge = (Node, Node); Graph stores them as (U, V).
\* The code compares node indices for equality only, so a graph is enumerated
\* under one naming of its nodes: in each partition the indices appear in the
\* order 0, 1, 2, ... of their first use.
UsedIdx(es, side) == {es[i][side][2] : i \in DOMAIN es}
NextEdges(es) ==
    {<<U(u), V(v)>> : u \in 0 .. Cardinality(UsedIdx(es, 1)),
                      v \in 0 .. Cardinality(UsedIdx(es, 2))}

\* every edge sequence of exactly n edges, duplicate edges included
RECURSIVE GraphsOfLen(_)
GraphsOfLen(n) ==
    IF n = 0 THEN {<<>>}
    ELSE LET shorter == GraphsOfLen(n - 1)
             all == {<<U(u), V(v)>> : u \in 0 .. n - 1, v \in 0 .. n - 1}
         IN  {Append(p[1], p[2]) : p \in {q \in shorter \X all : q[2] \in NextEdges(q[1])}}

\* every edge sequence of at most ne edges
RECURSIVE GraphsUpTo(_)
GraphsUpTo(ne) ==
    IF ne = 0 THEN GraphsOfLen(0)
    ELSE GraphsUpTo(ne - 1) \cup GraphsOfLen(ne)

\* impl From<Vec<(u64, u64)>> for Graph
FromPairs(pairs) == [i \in DOMAIN pairs |-> <<U(pairs[i][1]), V(pairs[i][2])>>]

\* impl From<Vec<Edge>> for Graph: keeps (U, V), swaps (V, U), drops the rest
RECURSIVE FromEdges(_)
FromEdges(es) ==
    IF es = <<>> THEN <<>>
    ELSE LET e == Head(es)
             rest == FromEdges(Tail(es))
         IN  IF e[1][1] = "U" /\ e[2][1] = "V" THEN <<e>> \o rest
             ELSE IF e[1][1] = "V" /\ e[2][1] = "U" THEN <<<<e[2], e[1]>>>> \o rest
             ELSE rest

\* the graph of tests::verify_cycle, a hexagon
Hexagon == FromPairs(<< <<0, 0>>, <<1, 0>>, <<1, 2>>, <<3, 2>>, <<3, 3>>, <<0, 3>> >>)

\* the graph of tests::fail_verify_cycle, two disjoint 4-cycles
TwoSquares == FromPairs(<< <<0, 0>>, <<0, 1>>, <<1, 0>>, <<1, 1>>,
                           <<6, 6>>, <<6, 7>>, <<7, 6>>, <<7, 7>> >>)

\* the graphs each call is made on: every edge sequence within its bound and
\* the two graphs of the tests
TestGraphs == {Hexagon, TwoSquares}
TrimGraphs == GraphsUpTo(TrimEdges) \cup TestGraphs
SolveGraphs == GraphsUpTo(SolveEdges) \cup TestGraphs
VerifyGraphs == GraphsUpTo(VerifyEdges) \cup TestGraphs

edge_count(es) == Len(es)

(***************************************************************************)
(* adjacency_matrix                                                        *)
(***************************************************************************)
EmptyMatrix == <<>>

\* one half of the loop body: insert b into a's set, creating the set if needed
AdjInsert(m, a, b) ==
    IF a \in DOMAIN m THEN [m EXCEPT ![a] = @ \cup {b}]
    ELSE m @@ (a :> {b})

RECURSIVE AdjFold(_, _, _)
AdjFold(es, i, m) ==
    IF i > Len(es) THEN m
    ELSE LET a == es[i][1]
             b == es[i][2]
         IN  AdjFold(es, i + 1, AdjInsert(AdjInsert(m, a, b), b, a))

adjacency_matrix(es) == AdjFold(es, 1, EmptyMatrix)

(***************************************************************************)
(* edge_trim                                                               *)
(***************************************************************************)
\* a lookup .expect("Node not found") of the visit fails
TrimVisitFaults(m, node) ==
    /\ Cardinality(m[node]) < 2
    /\ \E nb \in m[node] : nb \notin DOMAIN m

\* TrimVisit trimming nodes of degree 2 as well
TrimVisitDegree3(m, node) ==
    IF Cardinality(m[node]) >= 3 THEN m
    ELSE [x \in DOMAIN m |->
             IF x = node THEN {}
             ELSE IF x \in m[node] THEN m[x] \ {node}
             ELSE m[x]]

\* TrimVisit without neighbours.clear()
TrimVisitNoClear(m, node) ==
    IF Cardinality(m[node]) >= 2 THEN m
    ELSE [x \in DOMAIN m |->
             IF x \in m[node] THEN m[x] \ {node}
             ELSE m[x]]

\* TrimVisit without the removal of node from its neighbours' sets
TrimVisitClearOnly(m, node) ==
    IF Cardinality(m[node]) >= 2 THEN m
    ELSE [m EXCEPT ![node] = {}]

\* the body of `for node in adjmatrix.keys()`
TrimVisit(m, node) ==
    IF Cardinality(m[node]) >= 2 THEN m
    ELSE [x \in DOMAIN m |->
             IF x = node THEN {}
             ELSE IF x \in m[node] THEN m[x] \ {node}
             ELSE m[x]]

\* one round, the keys visited in every order: from the set S of
\* [adj, todo, ok] reached so far to the set of matrices a round can end in
RECURSIVE TrimRoundFrom(_)
TrimRoundFrom(S) ==
    IF \A s \in S : s.todo = {} \/ ~s.ok THEN S
    ELSE TrimRoundFrom(
           {s \in S : s.todo = {} \/ ~s.ok} \cup
           UNION {{IF TrimVisitFaults(s.adj, n)
                   THEN [adj |-> s.adj, todo |-> s.todo \ {n}, ok |-> FALSE]
                   ELSE [adj |-> TrimVisit(s.adj, n), todo |-> s.todo \ {n}, ok |-> TRUE]
                   : n \in s.todo}
                  : s \in {t \in S : t.todo # {} /\ t.ok}})

TrimRound(m) == TrimRoundFrom({[adj |-> m, todo |-> DOMAIN m, ok |-> TRUE]})

\* a round changes nothing: every visit either `continue`s or finds no
\* neighbour to remove and clears an empty set
TrimSettled(m) ==
    \A node \in DOMAIN m : ~TrimVisitFaults(m, node) /\ TrimVisit(m, node) = m

\* adjmatrix.retain(|_, v| v.borrow().len() > 0)
TrimRetain(m) ==
    LET keep == {x \in DOMAIN m : m[x] # {}}
    IN  [x \in keep |-> m[x]]

(***************************************************************************)
(* edge_at, index_of, edges_to_indexes                                     *)
(***************************************************************************)
\* Option<Edge> of edge_at; "Panic" is the index-out-of-bounds fault of
\* self.edges[index]
NoEdge == <<>>

edge_at(es, index) ==
    IF index > Len(es) THEN [tag |-> "None", edge |-> NoEdge]
    ELSE IF index >= Len(es) THEN [tag |-> "Panic", edge |-> NoEdge]
    ELSE [tag |-> "Some", edge |-> es[index + 1]]

\* the positions whose edge is `edge` in either orientation
PositionsOf(es, edge) ==
    {i \in 0 .. (Len(es) - 1) :
        es[i + 1] = edge \/ es[i + 1] = <<edge[2], edge[1]>>}

\* Option<usize> of index_of: the first such position
index_of(es, edge) ==
    LET hits == PositionsOf(es, edge)
    IN  IF hits = {} THEN [tag |-> "None", index |-> 0]
        ELSE [tag |-> "Some", index |-> CHOOSE i \in hits : \A j \in hits : i <= j]

\* indexes.sort()
Sort(s) == SortSeq(s, LAMBDA a, b : a < b)

\* Option<Vec<usize>> of edges_to_indexes
edges_to_indexes(es, path) ==
    IF \E i \in DOMAIN path : index_of(es, path[i]).tag = "None"
    THEN [tag |-> "None", indexes |-> <<>>]
    ELSE [tag |-> "Some",
          indexes |-> Sort([i \in DOMAIN path |-> index_of(es, path[i]).index])]

(***************************************************************************)
(* verify                                                                  *)
(***************************************************************************)
EmptyCounter == <<>>

\* counter[n] += 1, or insert 1
CountInc(counter, n) ==
    IF n \in DOMAIN counter THEN [counter EXCEPT ![n] = @ + 1]
    ELSE counter @@ (n :> 1)

\* VerifyLoop without the check that the indexes are sorted
RECURSIVE VerifyLoopUnsorted(_, _, _, _, _, _)
VerifyLoopUnsorted(es, cand, i, edgeset, counter, prev) ==
    IF i > Len(cand) THEN [tag |-> "ok", counter |-> counter]
    ELSE LET index == cand[i]
         IN  IF index \in edgeset THEN [tag |-> "false", counter |-> counter]
             ELSE LET e == edge_at(es, index)
                  IN  IF e.tag = "Panic" THEN [tag |-> "panic", counter |-> counter]
                      ELSE IF e.tag = "None" THEN [tag |-> "false", counter |-> counter]
                      ELSE VerifyLoopUnsorted(es, cand, i + 1, edgeset \cup {index},
                                      CountInc(CountInc(counter, e.edge[1]), e.edge[2]),
                                      index)

\* `for index in edges`, from the i-th entry on: "ok" with the degree counter,
\* or the verdict the loop returns with
RECURSIVE VerifyLoop(_, _, _, _, _, _)
VerifyLoop(es, cand, i, edgeset, counter, prev) ==
    IF i > Len(cand) THEN [tag |-> "ok", counter |-> counter]
    ELSE LET index == cand[i]
         IN  IF index \in edgeset THEN [tag |-> "false", counter |-> counter]
             ELSE IF index < prev THEN [tag |-> "false", counter |-> counter]
             ELSE LET e == edge_at(es, index)
                  IN  IF e.tag = "Panic" THEN [tag |-> "panic", counter |-> counter]
                      ELSE IF e.tag = "None" THEN [tag |-> "false", counter |-> counter]
                      ELSE VerifyLoop(es, cand, i + 1, edgeset \cup {index},
                                      CountInc(CountInc(counter, e.edge[1]), e.edge[2]),
                                      index)

\* verify without the walk that follows the cycle
FollowCycleOmitted(cmatrix, start, pos, n, cycle_len) == {"true"}

\* the `loop` that follows the cycle: the verdicts it can end with, over every
\* choice of adjs.iter().next()
RECURSIVE FollowCycle(_, _, _, _, _)
FollowCycle(cmatrix, start, pos, n, cycle_len) ==
    LET adjs == cmatrix[pos]
    IN  IF adjs = {} /\ pos = start
        THEN {IF n = cycle_len THEN "true" ELSE "false"}
        ELSE IF adjs = {} THEN {"false"}
        ELSE UNION {IF node \notin DOMAIN cmatrix THEN {"panic"}
                    ELSE FollowCycle([cmatrix EXCEPT ![node] = @ \ {pos},
                                                     ![pos] = @ \ {node}],
                                     start, node, n + 1, cycle_len)
                    : node \in adjs}

\* the verdicts verify can return: "true", "false", or "panic" for a fault
verify(es, cycle_len, cand) ==
    IF \/ Len(cand) % 2 = 1
       \/ cycle_len % 2 = 1
       \/ Len(cand) # cycle_len
       \/ cycle_len = 0
    THEN {"false"}
    ELSE LET r == VerifyLoop(es, cand, 1, {}, EmptyCounter, cand[1])
         IN  IF r.tag # "ok" THEN {r.tag}
             ELSE IF \E n \in DOMAIN r.counter : r.counter[n] # 2 THEN {"false"}
             ELSE LET cmatrix == adjacency_matrix(
                                   FromEdges([i \in DOMAIN cand |-> edge_at(es, cand[i]).edge]))
                  IN  UNION {FollowCycle(cmatrix, start, start, 0, cycle_len)
                             : start \in DOMAIN cmatrix}

(***************************************************************************)
(* graph_mine, dfs                                                         *)
(***************************************************************************)
\* Option<Vec<usize>> None
NoIndexes == [tag |-> "None", indexes |-> <<>>]

\* the recursive case's nadjmatrix: a clone of the matrix in which the
\* neighbour n no longer lists start
DfsBranch(m, from, n) == [m EXCEPT ![n] = @ \ {from}]

\* the base case returning every closed path, verified or not
DfsBaseUnverified(es, p) ==
    IF Len(p) = 0 THEN {"None"}
    ELSE IF edges_to_indexes(es, p).tag = "None" THEN {"None"}
    ELSE IF p[1][1] # p[Len(p)][2] THEN {"None"}
    ELSE {"Some"}

\* the base case (limit == 0): "None", "Some" (the path is returned), or
\* "Panic" when verify faults
DfsBase(es, p) ==
    IF Len(p) = 0 THEN {"None"}
    ELSE LET first == p[1]
             last == p[Len(p)]
             indexes == edges_to_indexes(es, p)
         IN  IF indexes.tag = "None" THEN {"None"}
             ELSE IF first[1] # last[2] THEN {"None"}
             ELSE {IF v = "true" THEN "Some" ELSE IF v = "false" THEN "None" ELSE "Panic"
                   : v \in verify(es, Len(p), indexes.indexes)}

\* dfs can return None: the base case can, or no neighbour's dfs returns a path
RECURSIVE DfsNone(_, _, _, _, _)
DfsNone(es, m, from, p, lim) ==
    IF lim = 0 THEN "None" \in DfsBase(es, p)
    ELSE IF from \in DOMAIN m
    THEN \A n \in m[from] :
            /\ n \in DOMAIN m
            /\ DfsNone(es, DfsBranch(m, from, n), n, Append(p, <<from, n>>), lim - 1)
    ELSE TRUE

\* the nodes graph_mine starts a dfs from
MineStarts(m) == {node \in DOMAIN m : Cardinality(m[node]) >= 2}

\* graph_mine can return None: the dfs of every start can
GraphMineNone(es, m, len) == \A node \in MineStarts(m) : DfsNone(es, m, node, <<>>, len)

VARIABLES
    edges,       \* Graph.edges
    pc,          \* the position of the call in progress
    adjmatrix,   \* the AdjacencyMatrix of solve / edge_trim
    count,       \* edge_trim's count
    round,       \* rounds of edge_trim completed
    cycle_len,   \* the cycle length asked of solve or verify
    cand,        \* the edge positions handed to verify
    verdict,     \* what verify returned
    start,       \* dfs's start: the node the walk stands on
    path,        \* dfs's path
    limit,       \* dfs's limit
    branch,      \* dfs's adjmatrix: the clone of the branch walked
    result       \* what solve returned

vars == <<edges, pc, adjmatrix, count, round, cycle_len, cand, verdict,
          start, path, limit, branch, result>>
verifyVars == <<cycle_len, cand, verdict>>
dfsVars == <<start, path, limit, branch>>

NoNode == <<>>

\* the variables of calls not yet made
Idle ==
    /\ adjmatrix = EmptyMatrix
    /\ round = 0
    /\ cycle_len = 0
    /\ cand = <<>>
    /\ verdict = "none"
    /\ start = NoNode
    /\ path = <<>>
    /\ limit = 0
    /\ branch = EmptyMatrix
    /\ result = NoIndexes

\* edge_trim(adjmatrix, count) on its own, for every count in 0 .. MaxRounds
InitTrim ==
    /\ edges \in TrimGraphs
    /\ pc = "new"
    /\ count \in 0 .. MaxRounds
    /\ Idle

\* let mut adjmatrix = self.adjacency_matrix();
AdjacencyMatrix ==
    /\ pc = "new"
    /\ adjmatrix' = adjacency_matrix(edges)
    /\ pc' = "trim"
    /\ UNCHANGED <<edges, count, round, verifyVars, dfsVars, result>>

\* one iteration of `for _ in 0..count`
EdgeTrimRound ==
    /\ pc = "trim"
    /\ round < count
    /\ DOMAIN adjmatrix # {}
    /\ ~TrimSettled(adjmatrix)
    /\ \E s \in TrimRound(adjmatrix) :
          /\ adjmatrix' = s.adj
          /\ pc' = IF s.ok THEN "trim" ELSE "panic"
    /\ round' = round + 1
    /\ UNCHANGED <<edges, count, verifyVars, dfsVars, result>>

\* the iterations left once a round changes nothing: each of them leaves the
\* matrix as it is, so they are taken together
EdgeTrimSettled ==
    /\ pc = "trim"
    /\ round < count
    /\ DOMAIN adjmatrix # {}
    /\ TrimSettled(adjmatrix)
    /\ round' = count
    /\ UNCHANGED <<edges, pc, adjmatrix, count, verifyVars, dfsVars, result>>

\* the loop is left (count reached, or the break on an empty matrix), then retain
EdgeTrimRetain ==
    /\ pc = "trim"
    /\ round = count \/ DOMAIN adjmatrix = {}
    /\ adjmatrix' = TrimRetain(adjmatrix)
    /\ pc' = "trimmed"
    /\ UNCHANGED <<edges, count, round, verifyVars, dfsVars, result>>

NextTrim ==
    \/ AdjacencyMatrix
    \/ EdgeTrimRound
    \/ EdgeTrimSettled
    \/ EdgeTrimRetain

SpecTrim == InitTrim /\ [][NextTrim]_vars

(***************************************************************************)
(* solve: adjacency_matrix, edge_trim(SolveRounds), graph_mine             *)
(***************************************************************************)
Init ==
    /\ edges \in SolveGraphs
    /\ pc = "new"
    /\ count = SolveRounds
    /\ Idle

\* self.graph_mine(&adjmatrix, cycle_len).  cycle_len is first read here, so
\* the length asked of solve is drawn here
GraphMine ==
    /\ pc = "trimmed"
    /\ count = SolveRounds
    /\ cycle_len' \in 0 .. MaxLen
    /\ pc' = "mine"
    /\ UNCHANGED <<edges, adjmatrix, count, round, cand, verdict, dfsVars, result>>

\* `for node in adjmatrix.keys()`: a node with at least 2 neighbours is
\* handed to dfs with an empty path
GraphMineDfs ==
    /\ pc = "mine"
    /\ \E node \in MineStarts(adjmatrix) : start' = node
    /\ path' = <<>>
    /\ limit' = cycle_len
    /\ branch' = adjmatrix
    /\ pc' = "dfs"
    /\ UNCHANGED <<edges, adjmatrix, count, round, verifyVars, result>>

\* the recursive case.  `for n in nodes`: the walk goes on to a neighbour n;
\* every neighbour is walked, each on its own clone.  With no neighbour (or
\* no entry for start) the call returns None and the search goes on with the
\* other neighbours and nodes.
DfsRecursiveCase ==
    /\ pc = "dfs"
    /\ limit > 0
    /\ IF start \in DOMAIN branch /\ branch[start] # {}
       THEN \E n \in branch[start] :
               IF n \in DOMAIN branch
               THEN /\ branch' = DfsBranch(branch, start, n)
                    /\ path' = Append(path, <<start, n>>)
                    /\ start' = n
                    /\ limit' = limit - 1
                    /\ pc' = "dfs"
                    /\ result' = result
               ELSE /\ pc' = "panic"
                    /\ UNCHANGED <<dfsVars, result>>
       ELSE /\ pc' = "mine"
            /\ start' = NoNode /\ path' = <<>> /\ limit' = 0 /\ branch' = EmptyMatrix
            /\ result' = result
    /\ UNCHANGED <<edges, adjmatrix, count, round, verifyVars>>

\* the base case.  "Some": the path is returned, every caller returns it,
\* whichever neighbour or node came first, and graph_mine returns its indexes.
\* "None": the search goes on.
DfsBaseCase ==
    /\ pc = "dfs"
    /\ limit = 0
    /\ \E r \in DfsBase(edges, path) :
          IF r = "Some"
          THEN /\ result' = edges_to_indexes(edges, path)
               /\ pc' = "done"
               /\ UNCHANGED dfsVars
          ELSE IF r = "None"
          THEN /\ pc' = "mine"
               /\ start' = NoNode /\ path' = <<>> /\ limit' = 0 /\ branch' = EmptyMatrix
               /\ result' = result
          ELSE /\ pc' = "panic"
               /\ UNCHANGED <<dfsVars, result>>
    /\ UNCHANGED <<edges, adjmatrix, count, round, verifyVars>>

\* every node is exhausted: graph_mine returns None
SolveNone ==
    /\ pc = "mine"
    /\ GraphMineNone(edges, adjmatrix, cycle_len) = TRUE
    /\ result' = NoIndexes
    /\ pc' = "done"
    /\ UNCHANGED <<edges, adjmatrix, count, round, verifyVars, dfsVars>>

\* the candidate solve returned is handed to verify with the same length
VerifySolved ==
    /\ pc = "done"
    /\ result.tag = "Some"
    /\ cand' = result.indexes
    /\ verdict' \in verify(edges, cycle_len, result.indexes)
    /\ pc' = "verified"
    /\ UNCHANGED <<edges, adjmatrix, count, round, cycle_len, dfsVars, result>>

Next ==
    \/ AdjacencyMatrix
    \/ EdgeTrimRound
    \/ EdgeTrimSettled
    \/ EdgeTrimRetain
    \/ GraphMine
    \/ GraphMineDfs
    \/ DfsRecursiveCase
    \/ DfsBaseCase
    \/ SolveNone
    \/ VerifySolved

Spec == Init /\ [][Next]_vars

(***************************************************************************)
(* verify called on a graph with an arbitrary list                         *)
(***************************************************************************)
\* positions up to one past edge_count: in range, equal to it, beyond it
Positions(es) == 0 .. (edge_count(es) + 1)

\* the lists handed to verify: every list within the bounds, and the list of
\* all positions in order that both tests use
AllPositions(es) == [i \in 1 .. Len(es) |-> i - 1]
Candidates(es) ==
    UNION {[1 .. n -> Positions(es)] : n \in 0 .. MaxCand} \cup {AllPositions(es)}

InitVerify ==
    /\ edges \in VerifyGraphs
    /\ pc = "call"
    /\ count = 0
    /\ Idle

\* pub fn verify(&self, cycle_len, edges)
Verify ==
    /\ pc = "call"
    /\ \E c \in Candidates(edges) :
       \E l \in (0 .. MaxCand) \cup {Len(c)} :
          /\ cand' = c
          /\ cycle_len' = l
          /\ verdict' \in verify(edges, l, c)
    /\ pc' = "verified"
    /\ UNCHANGED <<edges, adjmatrix, count, round, dfsVars, result>>

NextVerify == Verify

SpecVerify == InitVerify /\ [][NextVerify]_vars

(***************************************************************************)
(* Cycles of a graph and of an adjacency matrix, stated without the code   *)
(***************************************************************************)
Range(f) == {f[i] : i \in DOMAIN f}

\* the nodes on the edges at the positions P, and the number of those edges
\* at a node (parallel edges count once each)
Touched(es, P) == UNION {{es[i + 1][1], es[i + 1][2]} : i \in P}
Degree(es, P, n) == Cardinality({i \in P : n \in {es[i + 1][1], es[i + 1][2]}})

\* the nodes reached from the set S along the edges at the positions P
RECURSIVE Spread(_, _, _)
Spread(es, P, S) ==
    LET more == S \cup UNION {{es[i + 1][1], es[i + 1][2]} :
                              i \in {j \in P : es[j + 1][1] \in S \/ es[j + 1][2] \in S}}
    IN  IF more = S THEN S ELSE Spread(es, P, more)

AllDegreeTwo(es, P) == \A n \in Touched(es, P) : Degree(es, P, n) = 2
Connected(es, P) == \A n \in Touched(es, P) : Touched(es, P) \subseteq Spread(es, P, {n})

\* the edges at the positions P form one simple cycle
OneCycle(es, P) == P # {} /\ AllDegreeTwo(es, P) /\ Connected(es, P)

\* the graph contains a simple cycle of exactly len edges
HasCycle(es, len) ==
    \E P \in SUBSET (0 .. (Len(es) - 1)) : Cardinality(P) = len /\ OneCycle(es, P)

InRange(es, c) == \A i \in DOMAIN c : c[i] < edge_count(es)
Distinct(c) == \A i, j \in DOMAIN c : i # j => c[i] # c[j]
Ascending(c) == \A i, j \in DOMAIN c : i < j => c[i] < c[j]
PermsOf(c) == {[i \in DOMAIN c |-> c[f[i]]] : f \in Permutations(DOMAIN c)}

\* the adjacencies <<a, b>> of a matrix
Adjacencies(m) == UNION {{<<a, b>> : b \in m[a]} : a \in DOMAIN m}

\* the nodes reached from S in m without walking the adjacency a - b
RECURSIVE ReachAvoiding(_, _, _, _)
ReachAvoiding(m, S, a, b) ==
    LET more == S \cup {y \in DOMAIN m :
                          \E x \in S : /\ x \in DOMAIN m
                                       /\ y \in m[x]
                                       /\ {x, y} # {a, b}}
    IN  IF more = S THEN S ELSE ReachAvoiding(m, more, a, b)

\* the adjacencies that lie on a cycle of the matrix
OnCycle(m) == {e \in Adjacencies(m) : e[2] \in ReachAvoiding(m, {e[1]}, e[1], e[2])}

\* the largest part of a matrix in which every node has at least 2 neighbours
TwoCore(m) ==
    LET E == {{e[1], e[2]} : e \in Adjacencies(m)}
        Good(F) == \A n \in UNION F : Cardinality({e \in F : n \in e}) >= 2
        core == UNION {F \in SUBSET E : Good(F)}
    IN  [n \in UNION core |-> {x \in UNION core : {n, x} \in core}]

(***************************************************************************)
(* Claims                                                                  *)
(***************************************************************************)
\* C1: whenever solve(L) returns a candidate, verify(L, candidate) on the same
\* graph returns true.
RoundTrip == pc = "verified" => verdict = "true" /\ Len(cand) = cycle_len

\* C1 witness: solve returned a candidate of at least 4 edges and verify accepted it
RoundTripWitness ==
    /\ pc = "verified"
    /\ result.tag = "Some"
    /\ Len(result.indexes) >= 4
    /\ cand = result.indexes
    /\ verdict = "true"

\* C2: verify returns true only for a list of exactly L distinct positions
\* below edge_count whose edges put every touched node on exactly two of them
\* and form one connected cycle; the two disjoint 4-cycles of the test with
\* L = 8 verify as false.
VerifySound ==
    /\ (pc = "verified" /\ verdict = "true") =>
          /\ Len(cand) = cycle_len
          /\ Distinct(cand)
          /\ InRange(edges, cand)
          /\ AllDegreeTwo(edges, Range(cand))
          /\ Connected(edges, Range(cand))
    /\ (pc = "verified" /\ edges = TwoSquares /\ cand = AllPositions(edges)
          /\ cycle_len = Len(cand)) => verdict = "false"

\* C2 witness: a union of disjoint cycles, every degree 2, was rejected
VerifySoundWitness ==
    /\ pc = "verified"
    /\ Len(cand) = cycle_len
    /\ cycle_len >= 4
    /\ Distinct(cand)
    /\ Ascending(cand)
    /\ InRange(edges, cand)
    /\ AllDegreeTwo(edges, Range(cand))
    /\ ~Connected(edges, Range(cand))
    /\ verdict = "false"

\* C3: if the candidate lists in ascending order L distinct in-range positions
\* (L positive and even) whose edges form exactly one simple cycle, verify
\* returns true.
VerifyComplete ==
    (/\ pc = "verified"
     /\ cycle_len > 0
     /\ cycle_len % 2 = 0
     /\ Len(cand) = cycle_len
     /\ Ascending(cand)
     /\ InRange(edges, cand)
     /\ OneCycle(edges, Range(cand))) => verdict = "true"

\* C4: verify always ends with a boolean and never faults, and a list with a
\* position that is not below edge_count yields false.
VerifyTotal ==
    pc = "verified" =>
        /\ verdict \in {"true", "false"}
        /\ ~InRange(edges, cand) => verdict = "false"

\* C5 as claimed: verify returns the same result for every permutation of the
\* list (stated for lists of in-range positions, where verify cannot fault).
VerifyOrderFree ==
    (pc = "verified" /\ InRange(edges, cand)) =>
        \A p \in PermsOf(cand) : verify(edges, cycle_len, p) = {verdict}

\* C5 as amended: verify returns true only for a list in strictly ascending
\* order, and then it returns false for every other permutation of the list.
VerifySortedOnly ==
    (pc = "verified" /\ verdict = "true") =>
        /\ Ascending(cand)
        /\ \A p \in PermsOf(cand) \ {cand} : verify(edges, cycle_len, p) = {"false"}

\* C5 witness: an accepted list that has other permutations
VerifySortedOnlyWitness ==
    /\ pc = "verified"
    /\ verdict = "true"
    /\ Cardinality(PermsOf(cand)) > 1

SolveExhaustive ==
    (/\ pc = "done"
     /\ cycle_len > 0
     /\ cycle_len % 2 = 0
     /\ result.tag = "None") => ~HasCycle(edges, cycle_len)

\* C8: no step of a path that dfs builds uses an adjacency that an earlier
\* step of the path used, in either direction.
PathEdgesDistinct ==
    pc = "dfs" =>
        \A i, j \in DOMAIN path :
            i < j => {path[i][1], path[i][2]} # {path[j][1], path[j][2]}

\* C9: once a further round changes nothing, the matrix (its nodes with their
\* neighbour sets) is the same whatever order the nodes were visited in: it is
\* the largest part of the untrimmed matrix in which every node has at least
\* 2 neighbours.
TrimOrderFree ==
    (pc \in {"trim", "trimmed"} /\ TrimSettled(adjmatrix)) =>
        TrimRetain(adjmatrix) = TwoCore(adjacency_matrix(edges))

\* C9 witness: a fixed point reached by trimming part of the matrix away
TrimOrderFreeWitness ==
    /\ pc = "trim"
    /\ round > 0
    /\ TrimSettled(adjmatrix)
    /\ adjmatrix # adjacency_matrix(edges)
    /\ DOMAIN TrimRetain(adjmatrix) # {}

\* C10: a round only removes neighbours, and after at most n rounds (n the
\* number of edges) a further round changes nothing and every node left after
\* the retain has at least 2 neighbours.
TrimShrinks ==
    pc = "trim" =>
        \A x \in DOMAIN adjmatrix' :
            x \in DOMAIN adjmatrix /\ adjmatrix'[x] \subseteq adjmatrix[x]

TrimFixedAfterN ==
    (pc \in {"trim", "trimmed"} /\ round >= edge_count(edges)) =>
        /\ TrimSettled(adjmatrix)
        /\ pc = "trimmed" => \A x \in DOMAIN adjmatrix : Cardinality(adjmatrix[x]) >= 2

TrimConverges == [][TrimShrinks]_vars /\ []TrimFixedAfterN

\* C10 witness: n rounds ran on a graph of at least 3 edges, nodes were
\* trimmed away and nodes are left
TrimConvergesWitness ==
    /\ pc = "trimmed"
    /\ edge_count(edges) >= 3
    /\ round >= edge_count(edges)
    /\ DOMAIN adjmatrix # {}
    /\ DOMAIN adjmatrix # DOMAIN adjacency_matrix(edges)

\* b is in a's neighbour set exactly when a is in b's, and every node named
\* in a neighbour set is a key of the index
Consistent(m) ==
    \A a \in DOMAIN m : \A b \in m[a] : b \in DOMAIN m /\ a \in m[b]

\* every node named in a neighbour set is a key of the index
Closed(m) ==
    \A a \in DOMAIN m : m[a] \subseteq DOMAIN m

\* C11: the index built by adjacency_matrix, the index after every number of
\* edge_trim rounds and that index after the removal of its empty nodes are
\* symmetric and name only their own keys; every clone dfs walks names only
\* its own keys; and no lookup of edge_trim, graph_mine or dfs fails during
\* solve, for any graph and cycle length.
AdjacencyConsistent ==
    /\ pc # "panic"
    /\ pc # "new" => Consistent(adjmatrix) /\ Consistent(TrimRetain(adjmatrix))
    /\ pc = "dfs" => Closed(branch)

\* C11 witness: trimming took nodes out of the index and dfs, two steps into
\* its walk, has looked up its neighbours in a clone
AdjacencyConsistentWitness ==
    /\ pc = "dfs"
    /\ Len(path) >= 2
    /\ adjmatrix # adjacency_matrix(edges)
    /\ branch # adjmatrix
====
